---- MODULE Spec2Model ----
(***************************************************************************)
(* Model of src/app.py: the Flask view `hello` (GET / and HEAD /), run by  *)
(* one thread per request, and the three Prometheus series it updates.     *)
(*                                                                         *)
(* Strings that reach the log line are sequences of tokens: a token is one *)
(* of the two characters json.dumps escapes (the double quote and the      *)
(* backslash) or a run of ordinary characters kept as one unit.            *)
(*                                                                         *)
(* Library behaviour the view relies on, as modelled:                      *)
(*  - prometheus_client: labels(method=, endpoint=) with the declared      *)
(*    label names returns the series; inc, dec and observe take the        *)
(*    series' lock, so each is one atomic step, and none of them raises    *)
(*    (observe accepts any float, a negative one included);                *)
(*  - opentelemetry / logging calls inside the try block may raise; the    *)
(*    span context manager records the exception and re-raises it;         *)
(*  - logging.StreamHandler.emit hands an I/O error of the stream to       *)
(*    Handler.handleError and returns normally: the record is dropped.     *)
(***************************************************************************)
EXTENDS Integers, Sequences, FiniteSets, TLC

\* ------------------------------------------------------------- bounds
NumReq == 2        \* concurrent requests of Spec and FaultSpec
MaxTime == 2       \* largest reading of the wall clock in ClockSpec

\* ---------------------------------------------------------- constants
Req == 1..NumReq
GET == <<"GET">>
HEAD == <<"HEAD">>
Methods == {GET, HEAD}
Endpoint == <<"/">>
Message == <<"Hello from Flask on GKE! (Version 1.1 with Tracing)">>
ServiceName == <<"my-flask-app">>
NA == <<"N", "/", "A">>
Absent == [present |-> FALSE, value |-> <<>>]
Present(v) == [present |-> TRUE, value |-> v]
NoExc == "none"
SpanError == "SpanError"
AttrError == "AttrError"
LogError == "LogError"
MetricError == "MetricError"
InitialValue == 0  \* a series starts at zero when its labels are first used
NoResult == <<>>
NoResponse == [kind |-> "none", exc |-> NoExc, value |-> NoResult]

\* Values of the X-Request-ID header: empty, plain, the sentinel's own text,
\* and values holding the characters json.dumps escapes.
HeaderValues ==
    { <<>>, <<"abc123">>, NA, <<"a", "\"">>, <<"\\", "b">> }
AllHeaders == {Absent} \cup { Present(v) : v \in HeaderValues }
PlainHeaders == {Absent}

VARIABLES
    now,         \* the wall clock, time.time()
    gauge,       \* IN_PROGRESS_REQUESTS, by label pair
    counter,     \* REQUEST_COUNT, by label pair
    hist,        \* REQUEST_LATENCY, by label pair: [count, sum]
    pc,          \* position of each request's thread in hello
    method,      \* local `method`
    hdr,         \* the request's X-Request-ID header: [present, value]
    start_time,  \* local `start_time`
    span,        \* the request's span: [state, attrs, status]
    exc,         \* the exception in flight in the thread, or NoExc
    result,      \* the value of `return message`, or NoResult
    response,    \* what the caller got: [kind, exc, value]
    sink,        \* lines the logging handler wrote for the request
    logOutcome,  \* history: how the call of logger.info ended
    raised,      \* history: the exception first raised in the request
    lat,         \* history: the values the request passed to observe
    trace        \* history: the steps the request completed, in order

vars == << now, gauge, counter, hist, pc, method, hdr, start_time, span, exc,
           result, response, sink, logOutcome, raised, lat, trace >>

metricVars == << gauge, counter, hist >>
histVars == << logOutcome, raised, lat >>

LabelPairs == Methods \X {Endpoint}
Key(r) == << method[r], Endpoint >>

\* ------------------------------------------------------------ json.dumps
JsonEscapeChar(c) ==
    IF c = "\"" THEN << "\\", "\"" >>
    ELSE IF c = "\\" THEN << "\\", "\\" >>
    ELSE << c >>

RECURSIVE JsonEscape(_)
JsonEscape(s) ==
    IF s = <<>> THEN <<>>
    ELSE JsonEscapeChar(Head(s)) \o JsonEscape(Tail(s))

JsonString(s) == << "\"" >> \o JsonEscape(s) \o << "\"" >>

JsonDumps(entry) == [k \in DOMAIN entry |-> JsonString(entry[k])]

\* ------------------------------------------------- the view's expressions
\* Variant: `request.headers.get('X-Request-ID') or 'N/A'`.
RequestIdOrDefault(h) == IF h.present /\ h.value # <<>> THEN h.value ELSE NA

\* Line 88: request.headers.get('X-Request-ID', 'N/A').
RequestId(h) == IF h.present THEN h.value ELSE NA

LogEntry(m, h) ==
    [ severity |-> << "INFO" >>,
      message |-> Message,
      service_name |-> ServiceName,
      http_method |-> m,
      http_path |-> Endpoint,
      request_id |-> RequestId(h) ]

\* Lines 69, 97, 98, 99: the series' updates.
GaugeIncOp(v) == v + 1

\* Variant: the exit decrement left out.
GaugeDecMissing(v) == v

GaugeDecOp(v) == v - 1

CounterIncOp(v) == v + 1

Elapsed(t1, t0) == t1 - t0

HistObserve(h, amount) == [count |-> h.count + 1, sum |-> h.sum + amount]

\* ------------------------------------------------------- control flow
\* Where control goes from each point of hello (lines 69-99).
\* Variant: the entry increment placed inside the try block.
IncInsideTry == "fin_dec"

\* The entry increment is before `try`: a failure of it leaves the function.
GaugeIncFailTarget == "exit"

\* Variant: the span opened before `try`.
SpanOutsideTry == "exit"

\* `with tracer.start_as_current_span(...)` raising: no __exit__, into finally.
SpanEnterFailTarget == "fin_dec"

\* Variant: a failure of set_attribute caught and ignored.
AttrFailIgnored == "log"

\* An exception in the with body goes through the context manager's exit.
AttrFailTarget == "with_exit"

\* So does an exception of the log statement.
LogFailTarget == "with_exit"

\* Variant: the span started without `with` and not ended on return.
ReturnSkipsExit == "fin_dec"

\* `return message` inside the with block: the span is closed first.
ReturnTarget == "with_exit"

\* Variant: a context manager whose exit suppresses the exception.
Suppress(e) == NoExc

\* The span context manager re-raises the exception it was given.
Reraise(e) == e

\* Variant: the metric updates placed after the with block, not in finally.
CleanupAfterWith(e) == IF e = NoExc THEN "fin_dec" ELSE "exit"

\* Leaving the with block, normally or not, enters the finally block.
AfterWith(e) == "fin_dec"

\* What the caller of hello gets.
Outcome(e, res) ==
    IF e # NoExc THEN [kind |-> "raise", exc |-> e, value |-> NoResult]
    ELSE [kind |-> "return", exc |-> NoExc, value |-> res]

Step(r, name) == trace' = [trace EXCEPT ![r] = Append(@, name)]
Goto(r, where) == pc' = [pc EXCEPT ![r] = where]

\* ------------------------------------------------------------------ Init
Init ==
    /\ now = 0
    /\ gauge = [k \in LabelPairs |-> InitialValue]
    /\ counter = [k \in LabelPairs |-> InitialValue]
    /\ hist = [k \in LabelPairs |-> [count |-> InitialValue, sum |-> InitialValue]]
    /\ pc = [r \in Req |-> "idle"]
    /\ method = [r \in Req |-> GET]
    /\ hdr = [r \in Req |-> Absent]
    /\ start_time = [r \in Req |-> 0]
    /\ span = [r \in Req |-> [state |-> "none", attrs |-> {}, status |-> "UNSET"]]
    /\ exc = [r \in Req |-> NoExc]
    /\ result = [r \in Req |-> NoResult]
    /\ response = [r \in Req |-> NoResponse]
    /\ sink = [r \in Req |-> <<>>]
    /\ logOutcome = [r \in Req |-> "none"]
    /\ raised = [r \in Req |-> NoExc]
    /\ lat = [r \in Req |-> <<>>]
    /\ trace = [r \in Req |-> <<>>]

\* --------------------------------------------------------------- actions
\* Lines 65-67. Requests are numbered in the order they arrive.
Arrive(r, H) ==
    /\ pc[r] = "idle"
    /\ IF r = 1 THEN TRUE ELSE pc[r - 1] # "idle"
    /\ \E m \in Methods, h \in H :
          /\ method' = [method EXCEPT ![r] = m]
          /\ hdr' = [hdr EXCEPT ![r] = h]
    /\ start_time' = [start_time EXCEPT ![r] = now]
    /\ Goto(r, "inc")
    /\ UNCHANGED << now, metricVars, span, exc, result, response, sink,
                    histVars, trace >>

\* Line 69.
GaugeInc(r) ==
    /\ pc[r] = "inc"
    /\ gauge' = [gauge EXCEPT ![Key(r)] = GaugeIncOp(@)]
    /\ Step(r, "gauge_inc")
    /\ Goto(r, "span")
    /\ UNCHANGED << now, counter, hist, method, hdr, start_time, span, exc,
                    result, response, sink, histVars >>

\* Line 69 raising (injected in FaultSpec only).
GaugeIncFail(r) ==
    /\ pc[r] = "inc"
    /\ exc' = [exc EXCEPT ![r] = MetricError]
    /\ raised' = [raised EXCEPT ![r] = MetricError]
    /\ Goto(r, GaugeIncFailTarget)
    /\ UNCHANGED << now, metricVars, method, hdr, start_time, span, result,
                    response, sink, logOutcome, lat, trace >>

\* Line 75, entering the with block.
StartSpan(r) ==
    /\ pc[r] = "span"
    /\ span' = [span EXCEPT ![r].state = "open"]
    /\ Step(r, "span_open")
    /\ Goto(r, "attrs")
    /\ UNCHANGED << now, metricVars, method, hdr, start_time, exc, result,
                    response, sink, histVars >>

StartSpanFail(r) ==
    /\ pc[r] = "span"
    /\ exc' = [exc EXCEPT ![r] = SpanError]
    /\ raised' = [raised EXCEPT ![r] = SpanError]
    /\ Goto(r, SpanEnterFailTarget)
    /\ UNCHANGED << now, metricVars, method, hdr, start_time, span, result,
                    response, sink, logOutcome, lat, trace >>

\* Lines 76-77.
SetAttrs(r) ==
    /\ pc[r] = "attrs"
    /\ span' = [span EXCEPT ![r].attrs =
                   { << "http.method", method[r] >>, << "http.path", Endpoint >> }]
    /\ Step(r, "set_attrs")
    /\ Goto(r, "log")
    /\ UNCHANGED << now, metricVars, method, hdr, start_time, exc, result,
                    response, sink, histVars >>

SetAttrsFail(r) ==
    /\ pc[r] = "attrs"
    /\ exc' = [exc EXCEPT ![r] = AttrError]
    /\ raised' = [raised EXCEPT ![r] = AttrError]
    /\ Goto(r, AttrFailTarget)
    /\ UNCHANGED << now, metricVars, method, hdr, start_time, span, result,
                    response, sink, logOutcome, lat, trace >>

\* Lines 79-90: the handler writes the line.
LogWritten(r) ==
    /\ pc[r] = "log"
    /\ sink' = [sink EXCEPT ![r] = Append(@, JsonDumps(LogEntry(method[r], hdr[r])))]
    /\ logOutcome' = [logOutcome EXCEPT ![r] = "written"]
    /\ Step(r, "log_emit")
    /\ Goto(r, "ret")
    /\ UNCHANGED << now, metricVars, method, hdr, start_time, span, exc, result,
                    response, raised, lat >>

\* Lines 79-90: the stream fails; Handler.handleError drops the record.
LogDropped(r) ==
    /\ pc[r] = "log"
    /\ logOutcome' = [logOutcome EXCEPT ![r] = "dropped"]
    /\ Step(r, "log_emit")
    /\ Goto(r, "ret")
    /\ UNCHANGED << now, metricVars, method, hdr, start_time, span, exc, result,
                    response, sink, raised, lat >>

\* Lines 79-90: the call of logger.info raises; nothing in hello catches it.
LogRaise(r) ==
    /\ pc[r] = "log"
    /\ logOutcome' = [logOutcome EXCEPT ![r] = "raised"]
    /\ exc' = [exc EXCEPT ![r] = LogError]
    /\ raised' = [raised EXCEPT ![r] = LogError]
    /\ Step(r, "log_emit")
    /\ Goto(r, LogFailTarget)
    /\ UNCHANGED << now, metricVars, method, hdr, start_time, span, result,
                    response, sink, lat >>

\* Line 95.
Return(r) ==
    /\ pc[r] = "ret"
    /\ result' = [result EXCEPT ![r] = Message]
    /\ Step(r, "work")
    /\ Goto(r, ReturnTarget)
    /\ UNCHANGED << now, metricVars, method, hdr, start_time, span, exc,
                    response, sink, histVars >>

\* Line 75, leaving the with block: the span ends and the exception, if any,
\* is recorded on it and raised again.
WithExit(r) ==
    /\ pc[r] = "with_exit"
    /\ span' = [span EXCEPT ![r].state = "closed",
                            ![r].status = IF exc[r] = NoExc THEN "UNSET" ELSE "ERROR"]
    /\ exc' = [exc EXCEPT ![r] = Reraise(@)]
    /\ Step(r, "span_close")
    /\ Goto(r, AfterWith(exc[r]))
    /\ UNCHANGED << now, metricVars, method, hdr, start_time, result, response,
                    sink, histVars >>

\* Line 97.
FinallyDec(r) ==
    /\ pc[r] = "fin_dec"
    /\ gauge' = [gauge EXCEPT ![Key(r)] = GaugeDecOp(@)]
    /\ Step(r, "gauge_dec")
    /\ Goto(r, "fin_cnt")
    /\ UNCHANGED << now, counter, hist, method, hdr, start_time, span, exc,
                    result, response, sink, histVars >>

\* Line 98.
FinallyCount(r) ==
    /\ pc[r] = "fin_cnt"
    /\ counter' = [counter EXCEPT ![Key(r)] = CounterIncOp(@)]
    /\ Step(r, "counter_inc")
    /\ Goto(r, "fin_obs")
    /\ UNCHANGED << now, gauge, hist, method, hdr, start_time, span, exc,
                    result, response, sink, histVars >>

\* Line 99.
FinallyObserve(r) ==
    /\ pc[r] = "fin_obs"
    /\ hist' = [hist EXCEPT ![Key(r)] = HistObserve(@, Elapsed(now, start_time[r]))]
    /\ lat' = [lat EXCEPT ![r] = Append(@, Elapsed(now, start_time[r]))]
    /\ Step(r, "observe")
    /\ Goto(r, "exit")
    /\ UNCHANGED << now, gauge, counter, method, hdr, start_time, span, exc,
                    result, response, sink, logOutcome, raised >>

\* hello ends: Flask gets the return value or the exception.
Exit(r) ==
    /\ pc[r] = "exit"
    /\ response' = [response EXCEPT ![r] = Outcome(exc[r], result[r])]
    /\ Goto(r, "done")
    /\ UNCHANGED << now, metricVars, method, hdr, start_time, span, exc, result,
                    sink, histVars, trace >>

\* The wall clock advances.
Tick ==
    /\ now < MaxTime
    /\ now' = now + 1
    /\ UNCHANGED << metricVars, pc, method, hdr, start_time, span, exc, result,
                    response, sink, histVars, trace >>

\* The wall clock is set back (time.time() is not monotonic).
ClockSetBack ==
    /\ now > 0
    /\ \E t \in 0..(now - 1) : now' = t
    /\ UNCHANGED << metricVars, pc, method, hdr, start_time, span, exc, result,
                    response, sink, histVars, trace >>

\* ------------------------------------------------------- specifications
Handler(r, H) ==
    \/ Arrive(r, H)
    \/ GaugeInc(r)
    \/ StartSpan(r)
    \/ StartSpanFail(r)
    \/ SetAttrs(r)
    \/ SetAttrsFail(r)
    \/ LogWritten(r)
    \/ LogDropped(r)
    \/ LogRaise(r)
    \/ Return(r)
    \/ WithExit(r)
    \/ FinallyDec(r)
    \/ FinallyCount(r)
    \/ FinallyObserve(r)
    \/ Exit(r)

\* NumReq requests served concurrently.
Next == \E r \in Req : Handler(r, PlainHeaders)

Spec == Init /\ [][Next]_vars

\* The same, with a failure of the entry increment injected.
FaultNext ==
    \/ \E r \in Req : Handler(r, PlainHeaders)
    \/ \E r \in Req : GaugeIncFail(r)

FaultSpec == Init /\ [][FaultNext]_vars

\* One request, every header value, under a moving wall clock.
ClockNext ==
    \/ Handler(1, AllHeaders)
    \/ Tick
    \/ ClockSetBack

ClockSpec == Init /\ [][ClockNext]_vars

\* ------------------------------------------------------------ properties
Count(seq, x) == Cardinality({ i \in DOMAIN seq : seq[i] = x })
Has(r, x) == \E i \in DOMAIN trace[r] : trace[r][i] = x
Finished(r) == pc[r] = "done"
AllFinished == \A r \in Req : pc[r] \in {"idle", "done"}
DoneWith(k) == { r \in Req : Finished(r) /\ Key(r) = k }
InFlight(k) == { r \in Req : Key(r) = k /\ Has(r, "gauge_inc") /\ ~Has(r, "gauge_dec") }
CleanupRan(r) == Has(r, "gauge_dec") /\ Has(r, "counter_inc") /\ Has(r, "observe")
Greeting == [kind |-> "return", exc |-> NoExc, value |-> Message]

\* What a JSON parser reads back from an encoded string.
RECURSIVE JsonUnescape(_)
JsonUnescape(s) ==
    IF s = <<>> THEN <<>>
    ELSE IF Head(s) = "\\" /\ Len(s) >= 2
         THEN << s[2] >> \o JsonUnescape(SubSeq(s, 3, Len(s)))
         ELSE << Head(s) >> \o JsonUnescape(Tail(s))

JsonLoadsString(s) == JsonUnescape(SubSeq(s, 2, Len(s) - 1))

\* C1: once every request that arrived has finished, the in-flight gauge of
\* each label pair is back at its initial value and the request counter of
\* the pair is higher by exactly the number of finished requests of the pair.
C1_BalancedAfterAll ==
    AllFinished =>
        \A k \in LabelPairs :
            /\ gauge[k] = InitialValue
            /\ counter[k] = InitialValue + Cardinality(DoneWith(k))

C1_Witness ==
    /\ \A r \in Req : Finished(r) /\ method[r] = GET
    /\ counter[<< GET, Endpoint >>] = NumReq
    /\ \E r \in Req : response[r].kind = "raise"

\* C2: when the caller gets a failure of the try body, the request has
\* decremented the gauge exactly once and incremented the counter exactly once.
C2_CleanupOnceBeforeFailure ==
    \A r \in Req :
        response[r].kind = "raise" =>
            /\ Count(trace[r], "gauge_dec") = 1
            /\ Count(trace[r], "counter_inc") = 1

C2_Witness ==
    /\ \E r \in Req : response[r].kind = "raise" /\ raised[r] = SpanError
    /\ \E r \in Req : response[r].kind = "raise" /\ raised[r] = LogError

\* C3: a failure raised in the try body reaches the caller as that same
\* failure, neither swallowed nor replaced, and only after the gauge
\* decrement, the counter increment and the histogram observation.
C3_SameFailureAfterCleanup ==
    \A r \in Req :
        /\ (Finished(r) /\ raised[r] # NoExc) =>
              /\ response[r] = [kind |-> "raise", exc |-> raised[r], value |-> NoResult]
              /\ CleanupRan(r)
        /\ response[r].kind = "raise" => response[r].exc = raised[r]
        /\ response[r].kind = "return" => raised[r] = NoExc

C3_Witness ==
    \E r \in Req :
        /\ raised[r] = AttrError
        /\ response[r] = [kind |-> "raise", exc |-> AttrError, value |-> NoResult]
        /\ span[r].state = "closed"

\* C4: once every request that arrived has finished, succeeded or failed,
\* the observation count of the latency histogram of each label pair is
\* higher by exactly the number of finished requests of the pair.
C4_HistogramCount ==
    AllFinished =>
        \A k \in LabelPairs :
            hist[k].count = InitialValue + Cardinality(DoneWith(k))

C4_Witness ==
    /\ \A r \in Req : Finished(r)
    /\ \E r \in Req : response[r].kind = "raise" /\ raised[r] = SpanError
    /\ \E r \in Req : response[r] = Greeting
    /\ \E k \in LabelPairs : hist[k].count = NumReq

\* C5: every value passed to the latency histogram's observe is >= 0,
\* whatever the wall clock does between the two readings.
C5_NonNegativeLatency ==
    \A r \in Req : \A i \in DOMAIN lat[r] : lat[r][i] >= 0

\* C6: the request_id of every log line written equals the X-Request-ID
\* header verbatim when the header is present, and N/A when it is absent.
C6_RequestIdVerbatim ==
    \A r \in Req : \A i \in DOMAIN sink[r] :
        JsonLoadsString(sink[r][i].request_id) =
            (IF hdr[r].present THEN hdr[r].value ELSE NA)

C6_Witness ==
    \E r \in Req :
        /\ hdr[r] = Present(<< "a", "\"" >>)
        /\ Len(sink[r]) = 1
        /\ sink[r][1].request_id = << "\"", "a", "\\", "\"", "\"" >>

C8_LogFailureSwallowed ==
    \A r \in Req :
        (Finished(r) /\ logOutcome[r] \in {"dropped", "raised"}) =>
            response[r] = Greeting

\* Order of the steps of one request: CodeRank as hello runs them,
\* ClaimedRank with the span closed after the cleanup.
CodeRank ==
    [ gauge_inc |-> 1, span_open |-> 2, set_attrs |-> 3, log_emit |-> 4,
      work |-> 5, span_close |-> 6, gauge_dec |-> 7, counter_inc |-> 8,
      observe |-> 9 ]

ClaimedRank ==
    [ gauge_inc |-> 1, span_open |-> 2, set_attrs |-> 3, log_emit |-> 4,
      work |-> 5, gauge_dec |-> 6, counter_inc |-> 7, observe |-> 8,
      span_close |-> 9 ]

InOrder(r, rank) ==
    \A i, j \in DOMAIN trace[r] : i < j => rank[trace[r][i]] < rank[trace[r][j]]

StartsWithInc(r) == trace[r] # <<>> => trace[r][1] = "gauge_inc"

\* C9 (as stated): gauge increment, span opening, log event, work, cleanup,
\* and the span is closed only after the cleanup.
C9_SpanClosedAfterCleanup ==
    \A r \in Req :
        /\ StartsWithInc(r)
        /\ InOrder(r, ClaimedRank)
        /\ Has(r, "span_close") => CleanupRan(r)

\* C9 (amended): gauge increment, span opening, log event, work, then the
\* span is closed, and only after that the cleanup runs: when the cleanup
\* starts, a span that was opened is already closed.
C9_SpanClosedBeforeCleanup ==
    \A r \in Req :
        /\ StartsWithInc(r)
        /\ InOrder(r, CodeRank)
        /\ (Has(r, "gauge_dec") /\ Has(r, "span_open")) => Has(r, "span_close")

C9_Witness ==
    \E r \in Req :
        trace[r] = << "gauge_inc", "span_open", "set_attrs", "log_emit", "work",
                      "span_close", "gauge_dec", "counter_inc", "observe" >>

\* C10: the in-flight gauge of each label pair is its initial value plus the
\* number of requests of the pair between their entry increment and their
\* exit decrement; it is never below its initial value; a request whose
\* entry increment failed performs no decrement.
C10_GaugeCountsInFlight ==
    /\ \A k \in LabelPairs :
          /\ gauge[k] = InitialValue + Cardinality(InFlight(k))
          /\ gauge[k] >= InitialValue
    /\ \A r \in Req : raised[r] = MetricError => ~Has(r, "gauge_dec")

C10_Witness ==
    /\ \E r \in Req : Finished(r) /\ raised[r] = MetricError
    /\ \E k \in LabelPairs : gauge[k] = 1

====
